---- MODULE Spec2Model ----
(***************************************************************************)
(* Model of experimental/butterfly.cpp: the FourierKernel and the run of   *)
(* main() from the tree construction on (binding sizing, the butterfly     *)
(* sweep, the direct evaluation and the error analysis).                   *)
(*                                                                         *)
(* Coordinates are kept in half units (the integer c stands for c/2), so   *)
(* that every kernel value of the grid is one of 1, i, -1, -i and complex  *)
(* values are exact Gaussian integers <<re, im>>.                          *)
(* Doubles of the error analysis are records [cls, terms]: cls is the      *)
(* IEEE class ("fin", "inf", "nan") and terms the exact finite value, a    *)
(* sum of radicals sqrt(a/b) written as the sequence of pairs <<a, b>>.    *)
(***************************************************************************)
EXTENDS Integers, Sequences, FiniteSets, TLC

VARIABLES
  source_tree, target_tree,     \* the two NDTrees (immutable after construction)
  sources, charges, targets,    \* the point sets and the source weights
  checkErrors,                  \* false iff -nocheck was given
  result,                       \* std::vector<result_type> result(M)
  multipole, local,             \* box bindings: box -> size of its vector
  mResized, lResized,           \* history: number of resize() calls per box
  max_L, L_split,               \* -1 before their declaration is reached
  pc,                           \* position of main()
  L, s_idx, t_idx,              \* loop variables (0-based box positions)
  fired,                        \* history: operators selected, per box pair
  exact,                        \* the direct result
  k,                            \* loop variable of the error analysis
  tot_error_sq, tot_norm_sq,
  tot_ind_rel_err, max_ind_rel_err,
  rel_errs,                     \* history: rel_error of each k
  tot_rel_err, ave_rel_err,
  kern,                         \* the kernel operations applied to one point pair
  cli                           \* the command line and the position of its parse loop

vars == <<source_tree, target_tree, sources, charges, targets, checkErrors,
          result, multipole, local, mResized, lResized, max_L, L_split, pc,
          L, s_idx, t_idx, fired, exact, k, tot_error_sq, tot_norm_sq,
          tot_ind_rel_err, max_ind_rel_err, rel_errs, tot_rel_err,
          ave_rel_err, kern, cli>>

----------------------------------------------------------------------------
(* Bounds of the model *)

\* deepest tree of the sweep specification (levels() <= MaxLevels)
MaxLevels == 5
\* most boxes on one level of a tree
MaxWidth == 2
\* deepest tree of the numeric specification
NumLevels == 3
\* most sources / targets of a run
MaxPts == 2
\* largest point coordinate, in half units, the kernel is sampled at
MaxKCoord == 3
\* most arguments of a command line (argc - 1)
MaxArgs == 3

----------------------------------------------------------------------------
(* Small arithmetic helpers *)

Min(a, b) == IF a < b THEN a ELSE b

RECURSIVE SumSeq(_)
SumSeq(q) == IF q = <<>> THEN 0 ELSE Head(q) + SumSeq(Tail(q))

\* complex numbers as <<re, im>>
CZero == <<0, 0>>
CAdd(a, b) == <<a[1] + b[1], a[2] + b[2]>>
CSub(a, b) == <<a[1] - b[1], a[2] - b[2]>>
CMul(a, b) == <<a[1] * b[1] - a[2] * b[2], a[1] * b[2] + a[2] * b[1]>>

\* norm_2_sq of a complex number; norm_2 is its square root
norm_2_sq(a) == a[1] * a[1] + a[2] * a[2]

\* boost::math::cos_pi(h/2) and sin_pi(h/2) for an integer h
cos_pi_half(h) == CASE h % 4 = 0 -> 1 [] h % 4 = 2 -> -1 [] OTHER -> 0
sin_pi_half(h) == CASE h % 4 = 1 -> 1 [] h % 4 = 3 -> -1 [] OTHER -> 0

----------------------------------------------------------------------------
(* FourierKernel.  A point is Vec<1,double>: one coordinate, in half units, *)
(* so inner_prod(t,s) = t*s/4.                                              *)

\* operator(): r = 2*inner_prod(t,s) = (t*s)/2; value (cos_pi(r), sin_pi(r))
KernelValue(t, s) == <<cos_pi_half(t * s), sin_pi_half(t * s)>>

\* a real number (h/2) * pi^e
Real(h, e) == [h |-> h, e |-> e]

\* a phase in half turns, the unit of cos_pi: 2 * inner_prod(t,s)
KernelPhaseHalfTurns(t, s) == Real(t * s, 0)

\* phase(): 2 * pi * inner_prod(t,s) = ((t*s)/2) * pi
KernelPhase(t, s) == Real(t * s, 1)

\* ampl(): 1
KernelAmpl(t, s) == 1

----------------------------------------------------------------------------
(* fmmtl::NDTree.  A tree is the sequence of its levels, root level first; *)
(* a level is the sequence, in the order boxes(level) enumerates them, of  *)
(* the number of children of each of its boxes.  The children of a level's *)
(* boxes are the boxes of the next level, in order.  A box is the pair     *)
(* <<level, position>> with positions counted from 1.                      *)

\* a box of an NDTree<1> is a leaf or splits into 2^D = 2 children
NumChildren == 2

Rows(w) == {r \in [1..w -> {0, NumChildren}] : SumSeq(r) \in 1..MaxWidth}

RECURSIVE TreesFrom(_, _)
TreesFrom(w, n) ==
  {<<[i \in 1..w |-> 0]>>} \cup
  (IF n <= 1 THEN {}
   ELSE UNION {{<<r>> \o rest : rest \in TreesFrom(SumSeq(r), n - 1)} : r \in Rows(w)})

\* every tree of at most n levels
Trees(n) == TreesFrom(1, n)

levels(tree) == Len(tree)

\* tree.boxes(lev): the number of boxes of a level
NumBoxes(tree, lev) == Len(tree[lev + 1])

\* boxes(lev, tree): the boxes of a level, in enumeration order
boxes(lev, tree) == [i \in 1..NumBoxes(tree, lev) |-> <<lev, i>>]

is_leaf(tree, box) == tree[box[1] + 1][box[2]] = 0

\* the child boxes of a box: the next level's boxes, taken in order
Children(tree, box) ==
  LET row == tree[box[1] + 1]
      before == SumSeq(SubSeq(row, 1, box[2] - 1))
  IN {<<box[1] + 1, before + c>> : c \in 1..row[box[2]]}

AllBoxes(tree) ==
  UNION {{<<lev, i>> : i \in 1..NumBoxes(tree, lev)} : lev \in 0..(levels(tree) - 1)}

\* make_box_binding: one default-constructed (empty) vector per box
make_box_binding(tree) == [b \in AllBoxes(tree) |-> 0]

----------------------------------------------------------------------------
(* Doubles of the error analysis *)

FZero == [cls |-> "fin", terms |-> <<>>]

\* sqrt(a) / sqrt(b), and sqrt(a / b), for a, b >= 0: 0/0 is NaN, x/0 is +inf
FRatio(a, b) ==
  IF b = 0
  THEN (IF a = 0 THEN [cls |-> "nan", terms |-> <<>>] ELSE [cls |-> "inf", terms |-> <<>>])
  ELSE [cls |-> "fin", terms |-> <<<<a, b>>>>]

\* x + y (no negative value occurs)
FAdd(x, y) ==
  IF x.cls = "nan" \/ y.cls = "nan" THEN [cls |-> "nan", terms |-> <<>>]
  ELSE IF x.cls = "inf" \/ y.cls = "inf" THEN [cls |-> "inf", terms |-> <<>>]
  ELSE [cls |-> "fin", terms |-> x.terms \o y.terms]

\* the single radical a value of at most one term stands for
Radical(x) == IF x.terms = <<>> THEN <<0, 1>> ELSE x.terms[1]

\* x < y for values of at most one term; any comparison with NaN is false
FLess(x, y) ==
  IF x.cls = "nan" \/ y.cls = "nan" THEN FALSE
  ELSE IF x.cls = "inf" THEN FALSE
  ELSE IF y.cls = "inf" THEN TRUE
  ELSE Radical(x)[1] * Radical(y)[2] < Radical(y)[1] * Radical(x)[2]

\* std::max(a, b) is (a < b) ? b : a
StdMax(a, b) == IF FLess(a, b) THEN b ELSE a

\* x / n for a count n
FDivCount(x, n) ==
  IF n = 0
  THEN (IF x.cls = "fin" /\ x.terms = <<>> THEN [cls |-> "nan", terms |-> <<>>, div |-> 0]
        ELSE IF x.cls = "nan" THEN [cls |-> "nan", terms |-> <<>>, div |-> 0]
        ELSE [cls |-> "inf", terms |-> <<>>, div |-> 0])
  ELSE [cls |-> x.cls, terms |-> x.terms, div |-> n]

----------------------------------------------------------------------------
(* Direct::matvec: exact[k] = sum over the sources j of K(t_k, s_j) * c_j *)

RECURSIVE DirectSum(_, _, _, _)
DirectSum(t, srcs, chgs, j) ==
  IF j > Len(srcs) THEN CZero
  ELSE CAdd(CMul(KernelValue(t, srcs[j]), chgs[j]), DirectSum(t, srcs, chgs, j + 1))

DirectMatvec(srcs, chgs, tgts) ==
  [i \in 1..Len(tgts) |-> DirectSum(tgts[i], srcs, chgs, 1)]

----------------------------------------------------------------------------
(* The run of main() *)

\* the box the loop position idx (0-based) of boxes(lev, tree) stands at
BoxAt(tree, lev, idx) == boxes(lev, tree)[idx + 1]

\* a source-side branch testing L == 0 && sbox.is_leaf()
SourceOpsBothRequired(lev, sbox) ==
  IF lev = 0 /\ is_leaf(source_tree, sbox) THEN {"S2M"}
  ELSE IF lev < L_split THEN {"M2M"}
  ELSE {"S2L"}

\* a source-side branch testing sbox.is_leaf() alone
SourceOpsLeafOnly(lev, sbox) ==
  IF is_leaf(source_tree, sbox) THEN {"S2M"}
  ELSE IF lev < L_split THEN {"M2M"}
  ELSE {"S2L"}

\* the source-side branch taken for a box pair: the operators it runs
SourceOps(lev, sbox) ==
  IF lev = 0 \/ is_leaf(source_tree, sbox) THEN {"S2M"}
  ELSE IF lev < L_split THEN {"M2M"}
  ELSE {"S2L"}

\* the crossover branch
CrossOps(lev) == IF lev = L_split THEN {"M2L"} ELSE {}

\* a target-side branch testing L == max_L && tbox.is_leaf()
TargetOpsBothRequired(lev, tbox) ==
  IF lev = max_L /\ is_leaf(target_tree, tbox) THEN {"L2T"}
  ELSE IF lev > L_split THEN {"L2L"}
  ELSE {"M2T"}

\* the target-side branch taken for a box pair
TargetOps(lev, tbox) ==
  IF lev = max_L \/ is_leaf(target_tree, tbox) THEN {"L2T"}
  ELSE IF lev > L_split THEN {"L2L"}
  ELSE {"M2T"}

\* a sweep that runs through the split level
SweepCondInclusive(lev) == lev <= L_split

\* the condition of the sweep's level loop
SweepCond(lev) == lev < L_split

\* a sizing loop that stops one level early
SizeCondExclusive(lev) == lev < max_L

\* the condition of the sizing loop
SizeCond(lev) == lev <= max_L

\* the frame of the split step
SplitFrame ==
  UNCHANGED <<source_tree, target_tree, sources, charges, targets, checkErrors,
              result, multipole, local, mResized, lResized, max_L, fired,
              exact, k, tot_error_sq, tot_norm_sq, tot_ind_rel_err,
              max_ind_rel_err, rel_errs, tot_rel_err, ave_rel_err, kern, cli>>

\* the split step with the assertion compiled out
ComputeSplitUnchecked ==
  /\ pc = "size"
  /\ ~SizeCond(L)
  /\ L_split' = max_L \div 2
  /\ L' = 0
  /\ IF SweepCond(0)'
     THEN pc' = "sweep" /\ s_idx' = 0 /\ t_idx' = 0
     ELSE pc' = "check" /\ UNCHANGED <<s_idx, t_idx>>
  /\ SplitFrame

\* the split step asserting L_split >= 0
ComputeSplitNonNegative ==
  /\ pc = "size"
  /\ ~SizeCond(L)
  /\ L_split' = max_L \div 2
  /\ IF L_split' >= 0
     THEN /\ L' = 0
          /\ IF SweepCond(0)'
             THEN pc' = "sweep" /\ s_idx' = 0 /\ t_idx' = 0
             ELSE pc' = "check" /\ UNCHANGED <<s_idx, t_idx>>
     ELSE pc' = "aborted" /\ UNCHANGED <<L, s_idx, t_idx>>
  /\ SplitFrame

\* int max_L = std::min(source_tree.levels(), target_tree.levels()) - 1
ComputeMaxL ==
  /\ pc = "max_L"
  /\ max_L' = Min(levels(source_tree), levels(target_tree)) - 1
  /\ L' = 0
  /\ pc' = "size"
  /\ UNCHANGED <<source_tree, target_tree, sources, charges, targets, checkErrors,
                 result, multipole, local, mResized, lResized, L_split,
                 s_idx, t_idx, fired, exact, k, tot_error_sq, tot_norm_sq,
                 tot_ind_rel_err, max_ind_rel_err, rel_errs, tot_rel_err,
                 ave_rel_err, kern, cli>>

\* a sizing loop giving the local slots the box count of the wrong source level
SizeLevelWrongLevel ==
  /\ pc = "size"
  /\ SizeCond(L)
  /\ LET sb == {boxes(max_L - L, source_tree)[i] : i \in 1..NumBoxes(source_tree, max_L - L)}
         tb == {boxes(L, target_tree)[i] : i \in 1..NumBoxes(target_tree, L)}
     IN /\ multipole' = [b \in DOMAIN multipole |->
                           IF b \in sb THEN NumBoxes(target_tree, L) ELSE multipole[b]]
        /\ mResized' = [b \in DOMAIN mResized |->
                           IF b \in sb THEN mResized[b] + 1 ELSE mResized[b]]
        /\ local' = [b \in DOMAIN local |->
                           IF b \in tb THEN NumBoxes(source_tree, L) ELSE local[b]]
        /\ lResized' = [b \in DOMAIN lResized |->
                           IF b \in tb THEN lResized[b] + 1 ELSE lResized[b]]
  /\ L' = L + 1
  /\ UNCHANGED <<source_tree, target_tree, sources, charges, targets, checkErrors,
                 result, max_L, L_split, pc, s_idx, t_idx, fired, exact, k,
                 tot_error_sq, tot_norm_sq, tot_ind_rel_err, max_ind_rel_err,
                 rel_errs, tot_rel_err, ave_rel_err, kern, cli>>

\* one iteration of the sizing loop: both inner loops for the level index L
SizeLevel ==
  /\ pc = "size"
  /\ SizeCond(L)
  /\ LET sb == {boxes(max_L - L, source_tree)[i] : i \in 1..NumBoxes(source_tree, max_L - L)}
         tb == {boxes(L, target_tree)[i] : i \in 1..NumBoxes(target_tree, L)}
     IN /\ multipole' = [b \in DOMAIN multipole |->
                           IF b \in sb THEN NumBoxes(target_tree, L) ELSE multipole[b]]
        /\ mResized' = [b \in DOMAIN mResized |->
                           IF b \in sb THEN mResized[b] + 1 ELSE mResized[b]]
        /\ local' = [b \in DOMAIN local |->
                           IF b \in tb THEN NumBoxes(source_tree, max_L - L) ELSE local[b]]
        /\ lResized' = [b \in DOMAIN lResized |->
                           IF b \in tb THEN lResized[b] + 1 ELSE lResized[b]]
  /\ L' = L + 1
  /\ UNCHANGED <<source_tree, target_tree, sources, charges, targets, checkErrors,
                 result, max_L, L_split, pc, s_idx, t_idx, fired, exact, k,
                 tot_error_sq, tot_norm_sq, tot_ind_rel_err, max_ind_rel_err,
                 rel_errs, tot_rel_err, ave_rel_err, kern, cli>>

\* int L_split = max_L / 2; assert(L_split > 0); then the sweep's loop starts
ComputeSplit ==
  /\ pc = "size"
  /\ ~SizeCond(L)
  /\ L_split' = max_L \div 2
  /\ IF L_split' > 0
     THEN /\ L' = 0
          /\ IF SweepCond(0)'
             THEN pc' = "sweep" /\ s_idx' = 0 /\ t_idx' = 0
             ELSE pc' = "check" /\ UNCHANGED <<s_idx, t_idx>>
     ELSE pc' = "aborted" /\ UNCHANGED <<L, s_idx, t_idx>>
  /\ SplitFrame

\* a sweep whose source loop stops one box early
SweepPairShortSourceLoop ==
  /\ pc = "sweep"
  /\ LET sbox == BoxAt(source_tree, max_L - L, s_idx)
         tbox == BoxAt(target_tree, L, t_idx)
     IN fired' = Append(fired, [L |-> L, sbox |-> sbox, tbox |-> tbox,
                                s_idx |-> s_idx, t_idx |-> t_idx,
                                src |-> SourceOps(L, sbox),
                                cross |-> CrossOps(L),
                                tgt |-> TargetOps(L, tbox)])
  /\ IF t_idx + 1 < NumBoxes(target_tree, L)
     THEN t_idx' = t_idx + 1 /\ UNCHANGED <<s_idx, L, pc>>
     ELSE IF s_idx + 1 < NumBoxes(source_tree, max_L - L) - 1
     THEN s_idx' = s_idx + 1 /\ t_idx' = 0 /\ UNCHANGED <<L, pc>>
     ELSE /\ L' = L + 1
          /\ s_idx' = 0
          /\ t_idx' = 0
          /\ pc' = IF SweepCond(L + 1) THEN "sweep" ELSE "check"
  /\ UNCHANGED <<source_tree, target_tree, sources, charges, targets, checkErrors,
                 result, multipole, local, mResized, lResized, max_L, L_split,
                 exact, k, tot_error_sq, tot_norm_sq, tot_ind_rel_err,
                 max_ind_rel_err, rel_errs, tot_rel_err, ave_rel_err, kern, cli>>

\* the body of the sweep for one box pair, and the step of the three loops
SweepPair ==
  /\ pc = "sweep"
  /\ LET sbox == BoxAt(source_tree, max_L - L, s_idx)
         tbox == BoxAt(target_tree, L, t_idx)
     IN fired' = Append(fired, [L |-> L, sbox |-> sbox, tbox |-> tbox,
                                s_idx |-> s_idx, t_idx |-> t_idx,
                                src |-> SourceOps(L, sbox),
                                cross |-> CrossOps(L),
                                tgt |-> TargetOps(L, tbox)])
  /\ IF t_idx + 1 < NumBoxes(target_tree, L)
     THEN t_idx' = t_idx + 1 /\ UNCHANGED <<s_idx, L, pc>>
     ELSE IF s_idx + 1 < NumBoxes(source_tree, max_L - L)
     THEN s_idx' = s_idx + 1 /\ t_idx' = 0 /\ UNCHANGED <<L, pc>>
     ELSE /\ L' = L + 1
          /\ s_idx' = 0
          /\ t_idx' = 0
          /\ pc' = IF SweepCond(L + 1) THEN "sweep" ELSE "check"
  /\ UNCHANGED <<source_tree, target_tree, sources, charges, targets, checkErrors,
                 result, multipole, local, mResized, lResized, max_L, L_split,
                 exact, k, tot_error_sq, tot_norm_sq, tot_ind_rel_err,
                 max_ind_rel_err, rel_errs, tot_rel_err, ave_rel_err, kern, cli>>

\* the direct evaluation writing into result instead of exact
RunDirectIntoResult ==
  /\ pc = "check"
  /\ checkErrors
  /\ result' = DirectMatvec(sources, charges, targets)
  /\ exact' = [i \in 1..Len(targets) |-> CZero]
  /\ k' = 0
  /\ pc' = "err"
  /\ UNCHANGED <<source_tree, target_tree, sources, charges, targets, checkErrors,
                 multipole, local, mResized, lResized, max_L, L_split,
                 L, s_idx, t_idx, fired, tot_error_sq, tot_norm_sq,
                 tot_ind_rel_err, max_ind_rel_err, rel_errs, tot_rel_err,
                 ave_rel_err, kern, cli>>

\* if (checkErrors): Direct::matvec(K, sources, charges, targets, exact)
RunDirect ==
  /\ pc = "check"
  /\ checkErrors
  /\ exact' = DirectMatvec(sources, charges, targets)
  /\ k' = 0
  /\ pc' = "err"
  /\ UNCHANGED <<source_tree, target_tree, sources, charges, targets, checkErrors,
                 result, multipole, local, mResized, lResized, max_L, L_split,
                 L, s_idx, t_idx, fired, tot_error_sq, tot_norm_sq,
                 tot_ind_rel_err, max_ind_rel_err, rel_errs, tot_rel_err,
                 ave_rel_err, kern, cli>>

\* -nocheck: the verification is skipped
SkipCheck ==
  /\ pc = "check"
  /\ ~checkErrors
  /\ pc' = "done"
  /\ UNCHANGED <<source_tree, target_tree, sources, charges, targets, checkErrors,
                 result, multipole, local, mResized, lResized, max_L, L_split,
                 L, s_idx, t_idx, fired, exact, k, tot_error_sq, tot_norm_sq,
                 tot_ind_rel_err, max_ind_rel_err, rel_errs, tot_rel_err,
                 ave_rel_err, kern, cli>>

\* double rel_error = norm_2(exact[k] - result[k]) / norm_2(exact[k])
RelError(e, r) == FRatio(norm_2_sq(CSub(e, r)), norm_2_sq(e))

\* one iteration of the error loop
ErrStep ==
  /\ pc = "err"
  /\ k < Len(result)
  /\ LET rel_error == RelError(exact[k + 1], result[k + 1])
     IN /\ tot_ind_rel_err' = FAdd(tot_ind_rel_err, rel_error)
        /\ max_ind_rel_err' = StdMax(max_ind_rel_err, rel_error)
        /\ rel_errs' = Append(rel_errs, rel_error)
  /\ tot_error_sq' = tot_error_sq + norm_2_sq(CSub(exact[k + 1], result[k + 1]))
  /\ tot_norm_sq' = tot_norm_sq + norm_2_sq(exact[k + 1])
  /\ k' = k + 1
  /\ UNCHANGED <<source_tree, target_tree, sources, charges, targets, checkErrors,
                 result, multipole, local, mResized, lResized, max_L, L_split,
                 pc, L, s_idx, t_idx, fired, exact, tot_rel_err, ave_rel_err, kern, cli>>

\* the three reported error values, and the end of main()
ErrReport ==
  /\ pc = "err"
  /\ ~(k < Len(result))
  /\ tot_rel_err' = FRatio(tot_error_sq, tot_norm_sq)
  /\ ave_rel_err' = FDivCount(tot_ind_rel_err, Len(result))
  /\ pc' = "done"
  /\ UNCHANGED <<source_tree, target_tree, sources, charges, targets, checkErrors,
                 result, multipole, local, mResized, lResized, max_L, L_split,
                 L, s_idx, t_idx, fired, exact, k, tot_error_sq, tot_norm_sq,
                 tot_ind_rel_err, max_ind_rel_err, rel_errs, kern, cli>>

Next ==
  \/ ComputeMaxL
  \/ SizeLevel
  \/ ComputeSplit
  \/ SweepPair
  \/ RunDirect
  \/ SkipCheck
  \/ ErrStep
  \/ ErrReport

\* a point pair the kernel operations have not been applied to yet
KernelPair(t, s) ==
  [t |-> t, s |-> s, value |-> CZero, phase |-> Real(0, 0), ampl |-> 0, done |-> {}]

\* int N = 1000; int M = 1000
DefaultN == 1000
DefaultM == 1000

\* a command line: argv[1..argc-1] as args, the loop variable i, N and M, the
\* history of the argv indices read, and the state of the parse
CommandLine(args) ==
  [argv |-> args, i |-> 1, N |-> DefaultN, M |-> DefaultM, reads |-> {},
   state |-> "parsing"]

\* the parse of an empty command line, finished; the runs below draw their
\* point sets directly, on a grid far smaller than N and M
ArgsParsed == [CommandLine(<<>>) EXCEPT !.state = "parsed"]

\* the state at line 127, but for checkErrors and the command line
StartRun(trees, npts, coords, chgs, kpts) ==
  /\ source_tree \in trees
  /\ target_tree \in trees
  /\ \E N \in npts : sources \in [1..N -> coords] /\ charges \in [1..N -> chgs]
  /\ \E M \in npts : targets \in [1..M -> coords]
  /\ result = [i \in 1..Len(targets) |-> CZero]
  /\ multipole = make_box_binding(source_tree)
  /\ local = make_box_binding(target_tree)
  /\ mResized = [b \in AllBoxes(source_tree) |-> 0]
  /\ lResized = [b \in AllBoxes(target_tree) |-> 0]
  /\ max_L = -1
  /\ L_split = -1
  /\ pc = "max_L"
  /\ L = 0
  /\ s_idx = 0
  /\ t_idx = 0
  /\ fired = <<>>
  /\ exact = <<>>
  /\ k = 0
  /\ tot_error_sq = 0
  /\ tot_norm_sq = 0
  /\ tot_ind_rel_err = FZero
  /\ max_ind_rel_err = FZero
  /\ rel_errs = <<>>
  /\ tot_rel_err = FZero
  /\ ave_rel_err = FDivCount(FZero, 1)
  /\ kern \in {KernelPair(t, s) : t \in kpts, s \in kpts}

\* the state at line 127
Start(trees, npts, coords, chgs, kpts) ==
  /\ StartRun(trees, npts, coords, chgs, kpts)
  /\ checkErrors \in BOOLEAN
  /\ cli = ArgsParsed

\* the charges of the sources
Charges == {<<1, 0>>, <<0, 1>>}

\* the points of [0, 1) on the half-unit grid: 0 and 1/2
Coords == {0, 1}

\* runs over every tree pair, with unit charges and all points at 0
Init == Start(Trees(MaxLevels), 1..MaxPts, {0}, {<<1, 0>>}, {0})

Spec == Init /\ [][Next]_vars

\* runs over shallow trees and every point set of the grid
InitNum == Start(Trees(NumLevels), 1..MaxPts, Coords, Charges, {0})

SpecNum == InitNum /\ [][Next]_vars

----------------------------------------------------------------------------
(* The kernel operations applied to a sampled point pair *)

\* K(t, s)
CallValue ==
  /\ "value" \notin kern.done
  /\ kern' = [kern EXCEPT !.value = KernelValue(kern.t, kern.s),
                          !.done = @ \cup {"value"}]
  /\ UNCHANGED <<source_tree, target_tree, sources, charges, targets, checkErrors,
                 result, multipole, local, mResized, lResized, max_L, L_split, pc,
                 L, s_idx, t_idx, fired, exact, k, tot_error_sq, tot_norm_sq,
                 tot_ind_rel_err, max_ind_rel_err, rel_errs, tot_rel_err,
                 ave_rel_err, cli>>

\* K.phase(t, s)
CallPhase ==
  /\ "phase" \notin kern.done
  /\ kern' = [kern EXCEPT !.phase = KernelPhase(kern.t, kern.s),
                          !.done = @ \cup {"phase"}]
  /\ UNCHANGED <<source_tree, target_tree, sources, charges, targets, checkErrors,
                 result, multipole, local, mResized, lResized, max_L, L_split, pc,
                 L, s_idx, t_idx, fired, exact, k, tot_error_sq, tot_norm_sq,
                 tot_ind_rel_err, max_ind_rel_err, rel_errs, tot_rel_err,
                 ave_rel_err, cli>>

\* K.ampl(t, s)
CallAmpl ==
  /\ "ampl" \notin kern.done
  /\ kern' = [kern EXCEPT !.ampl = KernelAmpl(kern.t, kern.s),
                          !.done = @ \cup {"ampl"}]
  /\ UNCHANGED <<source_tree, target_tree, sources, charges, targets, checkErrors,
                 result, multipole, local, mResized, lResized, max_L, L_split, pc,
                 L, s_idx, t_idx, fired, exact, k, tot_error_sq, tot_norm_sq,
                 tot_ind_rel_err, max_ind_rel_err, rel_errs, tot_rel_err,
                 ave_rel_err, cli>>

NextKernel ==
  \/ CallValue
  \/ CallPhase
  \/ CallAmpl

\* the kernel sampled over the grid of point pairs
InitKernel == Start(Trees(1), {1}, {0}, {<<1, 0>>}, 0..MaxKCoord)

SpecKernel == InitKernel /\ [][NextKernel]_vars

----------------------------------------------------------------------------
(* Complex numbers off the grid.  [re, im, irr] with irr = <<h, e>> stands *)
(* for (re + i*im) * exp(i * (h/2) * pi^e); irr = <<0, 0>> for none.  For  *)
(* unit values two such records are equal exactly when the numbers are,    *)
(* since pi is irrational.                                                 *)

\* a Gaussian integer as such a record
Exact(v) == [re |-> v[1], im |-> v[2], irr |-> <<0, 0>>]

\* 2 * pi * x
TwoPiTimes(x) == Real(2 * x.h, x.e + 1)

\* cos(x) + i*sin(x) for x in radians
Cis(x) ==
  IF x.h = 0 THEN [re |-> 1, im |-> 0, irr |-> <<0, 0>>]
  ELSE IF x.e = 1 THEN [re |-> cos_pi_half(x.h), im |-> sin_pi_half(x.h), irr |-> <<0, 0>>]
  ELSE [re |-> 1, im |-> 0, irr |-> <<x.h, x.e>>]

\* a * z for a real integer a
Scale(a, z) == [re |-> a * z.re, im |-> a * z.im, irr |-> z.irr]

----------------------------------------------------------------------------
(* Properties *)

Terminated == pc \in {"done", "aborted"}

\* the sweep's loops have ended
SweepOver == pc \in {"check", "err", "done"}

\* the positions of fired that belong to level index lev
FiredAt(lev) == {i \in 1..Len(fired) : fired[i].L = lev}

\* the box pairs the level index lev pairs up
CrossProduct(lev) ==
  {<<<<max_L - lev, i>>, <<lev, j>>>> :
     i \in 1..NumBoxes(source_tree, max_L - lev), j \in 1..NumBoxes(target_tree, lev)}

\* the positions of fired at which the body ran for (lev, sbox, tbox)
FiredFor(lev, sbox, tbox) ==
  {i \in FiredAt(lev) : fired[i].sbox = sbox /\ fired[i].tbox = tbox}

RECURSIVE CountOps(_, _, _)
\* how many operators of the set ops ran, over the positions idxs, on side
CountOps(idxs, side, ops) ==
  IF idxs = {} THEN 0
  ELSE LET i == CHOOSE x \in idxs : TRUE
       IN Cardinality(fired[i][side] \cap ops) + CountOps(idxs \ {i}, side, ops)

\* C1: once the sweep is over it has visited the level indices 0, 1, ...,
\* max_L in increasing order, and at each of them every box pair of the cross
\* product (source level max_L - L, target level L) exactly once and no other.
C1_SweepCoversAllLevels ==
  SweepOver =>
    /\ \A i \in 1..Len(fired) : fired[i].L \in 0..max_L
    /\ \A i, j \in 1..Len(fired) : i < j => fired[i].L <= fired[j].L
    /\ \A lev \in 0..max_L :
         /\ {<<fired[i].sbox, fired[i].tbox>> : i \in FiredAt(lev)} = CrossProduct(lev)
         /\ Cardinality(FiredAt(lev)) = Cardinality(CrossProduct(lev))

\* C2: once the sweep is over, for every L in 0..max_L and every box pair of
\* that level exactly one of S2M, M2M, S2L and exactly one of M2T, L2L, L2T
\* has fired.
C2_OneOperatorPerSide ==
  SweepOver =>
    \A lev \in 0..max_L : \A p \in CrossProduct(lev) :
      /\ CountOps(FiredFor(lev, p[1], p[2]), "src", {"S2M", "M2M", "S2L"}) = 1
      /\ CountOps(FiredFor(lev, p[1], p[2]), "tgt", {"M2T", "L2L", "L2T"}) = 1

\* C3: once the sweep is over on a valid configuration, M2L has run exactly
\* once in the whole sweep, and that at the level index L_split.
C3_M2LOnceAtSplit ==
  (SweepOver /\ max_L >= 2) =>
    /\ CountOps(1..Len(fired), "cross", {"M2L"}) = 1
    /\ \A i \in 1..Len(fired) : "M2L" \in fired[i].cross => fired[i].L = L_split

\* C4: with max_L in {0, 1} the run never reaches the sweep, the verification
\* or the normal end, selects no operator, and once L_split is computed it has
\* stopped in the failed assertion.
C4_ConfigurationError ==
  max_L \in {0, 1} =>
    /\ pc \in {"size", "aborted"}
    /\ fired = <<>>
    /\ exact = <<>>
    /\ (L_split # -1 => pc = "aborted")

C4_Witness == pc = "aborted" /\ max_L = 1 /\ L_split = 0

\* both trees are a single leaf box
SingleLeaf == levels(source_tree) = 1 /\ levels(target_tree) = 1

\* C5 as stated: with single-leaf trees the run completes and its result is
\* the direct result.
C5_DegenerateEqualsDirect ==
  (SingleLeaf /\ Terminated) =>
    (pc = "done" /\ result = DirectMatvec(sources, charges, targets))

\* C5 as amended: with single-leaf trees (max_L = 0) the run stops in the
\* failed assertion: it never reaches the sweep or the direct evaluation, no
\* operator is selected and the result vector keeps its initial zeros.
C5_DegenerateAborts ==
  SingleLeaf =>
    /\ pc \in {"max_L", "size", "aborted"}
    /\ (pc # "max_L" => max_L = 0)
    /\ (Terminated => pc = "aborted" /\ L_split = 0)
    /\ fired = <<>>
    /\ exact = <<>>
    /\ result = [i \in 1..Len(targets) |-> CZero]

C5_Witness ==
  /\ SingleLeaf
  /\ pc = "aborted"
  /\ checkErrors
  /\ DirectMatvec(sources, charges, targets) # result

\* C6: a step that changes the result vector is a step of the sweep's body
\* whose target-side branch is L2T or M2T.
C6_ResultFrame ==
  [][result' # result =>
       /\ pc = "sweep"
       /\ TargetOps(L, BoxAt(target_tree, L, t_idx)) \cap {"L2T", "M2T"} # {}]_vars

C6_Witness ==
  /\ pc = "done"
  /\ checkErrors
  /\ \E i \in 1..Len(fired) : fired[i].src = {"M2M"}
  /\ \E i \in 1..Len(fired) : fired[i].src = {"S2M"}
  /\ exact # result
  /\ result = [i \in 1..Len(targets) |-> CZero]

\* every slot the level pairings address has its size, given by one resize
SizedForAllLevels ==
  \A lev \in 0..max_L :
    /\ \A i \in 1..NumBoxes(source_tree, max_L - lev) :
         /\ multipole[<<max_L - lev, i>>] = NumBoxes(target_tree, lev)
         /\ mResized[<<max_L - lev, i>>] = 1
    /\ \A j \in 1..NumBoxes(target_tree, lev) :
         /\ local[<<lev, j>>] = NumBoxes(source_tree, max_L - lev)
         /\ lResized[<<lev, j>>] = 1

\* C7: from the end of the sizing loop on, so before any operator is selected,
\* every source box of level max_L - L has its multipole slot sized to the
\* number of target boxes of level L and every target box of level L its local
\* slot sized to the number of source boxes of level max_L - L, for every L in
\* 0..max_L; and no box is ever resized twice.
C7_BindingSizing ==
  /\ (pc \in {"sweep", "check", "err", "done", "aborted"} \/ fired # <<>>) => SizedForAllLevels
  /\ \A b \in DOMAIN mResized : mResized[b] <= 1
  /\ \A b \in DOMAIN lResized : lResized[b] <= 1

C7_Witness ==
  /\ pc = "sweep"
  /\ Len(fired) >= 1
  /\ levels(source_tree) > levels(target_tree)
  /\ \E b \in DOMAIN mResized : mResized[b] = 0
  /\ \E lev \in 0..max_L :
       NumBoxes(target_tree, lev) # NumBoxes(source_tree, max_L - lev)

\* C8: after a completed sweep and verification the aggregate relative error
\* sqrt(tot_error_sq / tot_norm_sq) is below 1e-2.
C8_AggregateErrorBelowTolerance ==
  (pc = "done" /\ checkErrors /\ max_L >= 2) =>
    /\ tot_rel_err.cls = "fin"
    /\ Radical(tot_rel_err)[1] * 10000 < Radical(tot_rel_err)[2]

\* the three kernel operations have been applied to the point pair
KernelSampled == kern.done = {"value", "phase", "ampl"}

\* C9 as stated: value = ampl * (cos(2*pi*phase) + i*sin(2*pi*phase)).
C9_ValueIsCisTwoPiPhase ==
  KernelSampled => Exact(kern.value) = Scale(kern.ampl, Cis(TwoPiTimes(kern.phase)))

\* C9 as amended: value = ampl * (cos(phase) + i*sin(phase)), the phase being
\* in radians (it already carries the factor 2*pi).
C9_ValueIsCisPhase ==
  KernelSampled => Exact(kern.value) = Scale(kern.ampl, Cis(kern.phase))

C9_Witness == KernelSampled /\ kern.value = <<0, -1>> /\ kern.t # kern.s

\* C10: after an error analysis in which some exact_k is zero, the per-target
\* error of a k with exact_k = result_k = 0 is 0, and neither the average, the
\* maximum nor the aggregate error is NaN or infinite.
C10_ZeroNormHandled ==
  (pc = "done" /\ checkErrors /\ \E i \in 1..Len(exact) : exact[i] = CZero) =>
    /\ \A i \in 1..Len(exact) :
         (exact[i] = CZero /\ result[i] = CZero) =>
            (rel_errs[i].cls = "fin" /\ Radical(rel_errs[i])[1] = 0)
    /\ ave_rel_err.cls = "fin"
    /\ max_ind_rel_err.cls = "fin"
    /\ tot_rel_err.cls = "fin"

----------------------------------------------------------------------------
(* The command-line parse loop of main().  argv[0] is the program name,    *)
(* argv[1..argc-1] are the arguments and argv[argc] is the null pointer.   *)

\* the arguments a command line is made of
Tokens == {"-N", "-M", "-nocheck", "5", "12", "x"}

\* the arguments that are integers
IntTokens == {"5", "12"}

\* atoi: the leading integer of the string, 0 when it has none
atoi(tok) == CASE tok = "5" -> 5 [] tok = "12" -> 12 [] OTHER -> 0

\* what atoi(NULL) may return when it does not fault
UndefinedInts == {0, -1}

Argc == Len(cli.argv) + 1

\* one iteration of the parse loop, with its ++i
ParseArg ==
  /\ cli.state = "parsing"
  /\ cli.i < Argc
  /\ LET i == cli.i
         tok == cli.argv[i]
         j == i + 1
     IN IF tok \in {"-N", "-M"}
        THEN /\ UNCHANGED checkErrors
             /\ IF j < Argc
                THEN cli' = [cli EXCEPT
                               !.N = IF tok = "-N" THEN atoi(cli.argv[j]) ELSE @,
                               !.M = IF tok = "-M" THEN atoi(cli.argv[j]) ELSE @,
                               !.i = j + 1,
                               !.reads = @ \cup {i, j}]
                ELSE \* argv[argc] is null: atoi(NULL) is undefined behaviour
                     \/ cli' = [cli EXCEPT !.state = "crashed", !.i = j,
                                           !.reads = @ \cup {i, j}]
                     \/ \E g \in UndefinedInts :
                          cli' = [cli EXCEPT
                                    !.N = IF tok = "-N" THEN g ELSE @,
                                    !.M = IF tok = "-M" THEN g ELSE @,
                                    !.i = j + 1,
                                    !.reads = @ \cup {i, j}]
        ELSE /\ checkErrors' = IF tok = "-nocheck" THEN FALSE ELSE checkErrors
             /\ cli' = [cli EXCEPT !.i = i + 1, !.reads = @ \cup {i}]
  /\ UNCHANGED <<source_tree, target_tree, sources, charges, targets,
                 result, multipole, local, mResized, lResized, max_L, L_split, pc,
                 L, s_idx, t_idx, fired, exact, k, tot_error_sq, tot_norm_sq,
                 tot_ind_rel_err, max_ind_rel_err, rel_errs, tot_rel_err,
                 ave_rel_err, kern>>

\* the loop condition i < argc fails
ParseEnd ==
  /\ cli.state = "parsing"
  /\ ~(cli.i < Argc)
  /\ cli' = [cli EXCEPT !.state = "parsed"]
  /\ UNCHANGED <<source_tree, target_tree, sources, charges, targets, checkErrors,
                 result, multipole, local, mResized, lResized, max_L, L_split, pc,
                 L, s_idx, t_idx, fired, exact, k, tot_error_sq, tot_norm_sq,
                 tot_ind_rel_err, max_ind_rel_err, rel_errs, tot_rel_err,
                 ave_rel_err, kern>>

NextArgs ==
  \/ ParseArg
  \/ ParseEnd

\* every command line of at most MaxArgs arguments, before the parse loop
InitArgs ==
  /\ StartRun(Trees(1), {1}, {0}, {<<1, 0>>}, {0})
  /\ checkErrors = TRUE
  /\ cli \in {CommandLine(a) : a \in UNION {[1..n -> Tokens] : n \in 0..MaxArgs}}

SpecArgs == InitArgs /\ [][NextArgs]_vars

\* the positions of args at which flag stands before an integer
PairsOf(args, flag) ==
  {p \in 1..(Len(args) - 1) : args[p] = flag /\ args[p + 1] \in IntTokens}

\* the integer of the last `flag <int>` pair of args, dflt when there is none
LastPairValue(args, flag, dflt) ==
  IF PairsOf(args, flag) = {} THEN dflt
  ELSE atoi(args[(CHOOSE p \in PairsOf(args, flag) :
                    \A q \in PairsOf(args, flag) : q <= p) + 1])

\* C11: once the command line is parsed, N is the integer of the last
\* `-N <int>` pair and 1000 when there is none, M likewise for -M, and the
\* verification is switched off exactly when -nocheck is among the arguments;
\* no other argument has any effect.
C11_ParsedAsDocumented ==
  cli.state = "parsed" =>
    /\ cli.N = LastPairValue(cli.argv, "-N", DefaultN)
    /\ cli.M = LastPairValue(cli.argv, "-M", DefaultM)
    /\ checkErrors = ~(\E p \in 1..Len(cli.argv) : cli.argv[p] = "-nocheck")

\* C19: the parse loop reads only argv entries of index below argc, and its
\* index never passes argc.
C19_ArgvReadsInBounds ==
  /\ \A r \in cli.reads : r < Argc
  /\ cli.i <= Argc

----------------------------------------------------------------------------
(* Properties of the operator selection and of the order of the sweep *)

\* C12: for every box pair the sweep's body has run for, the source-side
\* operator is S2M exactly when L = 0 or sbox is a leaf, M2M exactly when sbox
\* is no leaf and 0 < L < L_split, and S2L exactly when sbox is no leaf and
\* L >= L_split.
C12_SourceSelection ==
  \A i \in 1..Len(fired) :
    LET f == fired[i]
        leaf == is_leaf(source_tree, f.sbox)
    IN /\ Cardinality(f.src) = 1
       /\ ("S2M" \in f.src) <=> (f.L = 0 \/ leaf)
       /\ ("M2M" \in f.src) <=> (~leaf /\ 0 < f.L /\ f.L < L_split)
       /\ ("S2L" \in f.src) <=> (~leaf /\ f.L >= L_split)

C12_Witness ==
  /\ \E i \in 1..Len(fired) : fired[i].src = {"M2M"}
  /\ \E i \in 1..Len(fired) : fired[i].src = {"S2M"} /\ fired[i].L > 0
  /\ \E i \in 1..Len(fired) : fired[i].src = {"S2M"} /\ fired[i].L = 0

\* C13: for every box pair the sweep's body has run for, the target-side
\* operator is L2T exactly when L = max_L or tbox is a leaf, L2L exactly when
\* tbox is no leaf, L < max_L and L > L_split, and M2T exactly when tbox is no
\* leaf, L < max_L and L < L_split.
C13_TargetSelection ==
  \A i \in 1..Len(fired) :
    LET f == fired[i]
        leaf == is_leaf(target_tree, f.tbox)
    IN /\ Cardinality(f.tgt) = 1
       /\ ("L2T" \in f.tgt) <=> (f.L = max_L \/ leaf)
       /\ ("L2L" \in f.tgt) <=> (~leaf /\ f.L < max_L /\ f.L > L_split)
       /\ ("M2T" \in f.tgt) <=> (~leaf /\ f.L < max_L /\ f.L < L_split)

C13_Witness ==
  /\ \E i \in 1..Len(fired) : fired[i].tgt = {"L2T"}
  /\ \E i \in 1..Len(fired) : fired[i].tgt = {"M2T"} /\ fired[i].L > 0

\* the body has run, with an operator on each side, for (lev, sbox, tbox)
\* at a position of fired before i
DoneBefore(i, lev, sbox, tbox) ==
  \E j \in 1..(i - 1) :
    /\ fired[j].L = lev
    /\ fired[j].sbox = sbox
    /\ fired[j].tbox = tbox
    /\ fired[j].src # {}
    /\ fired[j].tgt # {}

\* C14: when the body runs for a box pair of level index L + 1, it has run
\* before, with both its operators, for every box pair of level index L.
C14_LevelBarrier ==
  \A i \in 1..Len(fired) :
    fired[i].L >= 1 =>
      \A p \in CrossProduct(fired[i].L - 1) :
        DoneBefore(i, fired[i].L - 1, p[1], p[2])

C14_Witness ==
  \E i \in 1..Len(fired) :
    fired[i].L = 1 /\ Cardinality(CrossProduct(0)) > 1

\* C15: when M2M is selected for a source box at level index L, L >= 1, the
\* box has children, all at source level max_L - (L - 1), and for each child
\* and each target box of level L - 1 the body ran before, at level index
\* L - 1, with S2M or M2M selected.
C15_M2MInputsReady ==
  \A i \in 1..Len(fired) :
    "M2M" \in fired[i].src =>
      LET f == fired[i]
          kids == Children(source_tree, f.sbox)
      IN /\ f.L >= 1
         /\ kids # {}
         /\ \A c \in kids :
              /\ c \in AllBoxes(source_tree)
              /\ c[1] = max_L - (f.L - 1)
              /\ \A t \in 1..NumBoxes(target_tree, f.L - 1) :
                   \E j \in 1..(i - 1) :
                     /\ fired[j].L = f.L - 1
                     /\ fired[j].sbox = c
                     /\ fired[j].tbox = <<f.L - 1, t>>
                     /\ fired[j].src \cap {"S2M", "M2M"} # {}

C15_Witness ==
  \E i \in 1..Len(fired) :
    /\ "M2M" \in fired[i].src
    /\ Cardinality(Children(source_tree, fired[i].sbox)) = NumChildren

\* C16: two distinct runs of the body at one level index address distinct
\* multipole slots (sbox, t_idx) and distinct local slots (tbox, s_idx); s_idx
\* and t_idx are the positions of the boxes in their level; and each index is
\* below the size its slot was given and below the level's box count.
C16_SlotsDisjoint ==
  /\ \A i, j \in 1..Len(fired) :
       (i # j /\ fired[i].L = fired[j].L) =>
          /\ <<fired[i].sbox, fired[i].t_idx>> # <<fired[j].sbox, fired[j].t_idx>>
          /\ <<fired[i].tbox, fired[i].s_idx>> # <<fired[j].tbox, fired[j].s_idx>>
  /\ \A i \in 1..Len(fired) :
       LET f == fired[i]
       IN /\ f.sbox = <<max_L - f.L, f.s_idx + 1>>
          /\ f.tbox = <<f.L, f.t_idx + 1>>
          /\ f.t_idx < multipole[f.sbox]
          /\ f.t_idx < NumBoxes(target_tree, f.L)
          /\ f.s_idx < local[f.tbox]
          /\ f.s_idx < NumBoxes(source_tree, max_L - f.L)

C16_Witness ==
  \E i, j \in 1..Len(fired) :
    /\ fired[i].L = 1
    /\ fired[j].L = 1
    /\ fired[i].s_idx # fired[j].s_idx
    /\ fired[i].t_idx # fired[j].t_idx

\* the target boxes that hold the points L2T has to reach: the leaves of a
\* level <= max_L and the boxes of level max_L (every box holds a point)
EvaluationBoxes ==
  {b \in AllBoxes(target_tree) :
     b[1] <= max_L /\ (is_leaf(target_tree, b) \/ b[1] = max_L)}

\* C17: once a sweep on a valid configuration is over, L2T has fired for every
\* target box that is a leaf of a level <= max_L or a box of level max_L,
\* against every source box of the paired source level.
C17_TargetsCovered ==
  (SweepOver /\ max_L >= 2) =>
    \A b \in EvaluationBoxes :
      \A s \in 1..NumBoxes(source_tree, max_L - b[1]) :
        \E j \in 1..Len(fired) :
          /\ fired[j].tbox = b
          /\ fired[j].sbox = <<max_L - b[1], s>>
          /\ "L2T" \in fired[j].tgt

\* C18: every run of the body has 0 <= L < L_split, selects S2M or M2M on the
\* source side, no M2L, and M2T or (for a leaf target box only) L2T on the
\* target side; its source box is of a level above max_L - L_split and its
\* target box of a level below L_split.
C18_SweepRangeAsImplemented ==
  \A i \in 1..Len(fired) :
    LET f == fired[i]
    IN /\ 0 <= f.L /\ f.L < L_split
       /\ f.src \subseteq {"S2M", "M2M"}
       /\ f.cross = {}
       /\ f.tgt \subseteq {"L2T", "M2T"}
       /\ ("L2T" \in f.tgt => is_leaf(target_tree, f.tbox))
       /\ f.sbox[1] > max_L - L_split
       /\ f.tbox[1] < L_split

C18_Witness ==
  /\ pc = "done"
  /\ L = L_split
  /\ L_split = 2
  /\ \E i \in 1..Len(fired) : fired[i].src = {"M2M"} /\ fired[i].tgt = {"L2T"}
  /\ \E i \in 1..Len(fired) : fired[i].src = {"S2M"} /\ fired[i].tgt = {"M2T"}

====
